---- MODULE Spec2Model ----
(***************************************************************************)
(* Model of cmd/dagdemo/dagdemo.go (soterd): main, runNet and save.        *)
(* runNet spawns minerCount mining nodes, connects them, dispatches one    *)
(* asynchronous block generation per node, waits for the futures, renders  *)
(* the dag and stores the html document. The deferred function registered  *)
(* after the spawn loop tears the miners down when runNet returns.         *)
(* Collaborator calls (rpctest, rpcclient, soterutil, os) either succeed   *)
(* or return an error; the generation tasks run concurrently with runNet.  *)
(***************************************************************************)
EXTENDS Integers, Sequences, FiniteSets, TLC

\* ---------------------------------------------------------------- bounds
MaxMiners == 3          \* largest minerCount explored
MaxRand == 2            \* number of distinct random suffixes of TempFile

\* ------------------------------------------------------ program constants
DefaultBlockCount == 50 \* main: runNet(4, 50, output)

Nodes == 0 .. (MaxMiners - 1)
MinerCounts == 0 .. MaxMiners
\* block counts explored; uint32(blockCount) leaves these values unchanged
BlockCounts == {1, DefaultBlockCount}

\* ------------------------------------------------------------- file names
\* A path is a sequence of components, a component a sequence of tokens;
\* the empty path is the empty string of the -o flag.
Pattern == <<"dag_", "*", ".html">>
TempDir == << <<"tmp">> >>
OutDir == << <<"outdir">> >>
OldFile == << <<"out", ".html">> >>
NewFile == << <<"new", ".html">> >>
OrphanFile == << <<"nodir">>, <<"x", ".html">> >>
Outputs == {<<>>, OutDir, OldFile, NewFile, OrphanFile}

RECURSIVE Repeat(_, _)
Repeat(tok, n) == IF n = 0 THEN <<>> ELSE <<tok>> \o Repeat(tok, n - 1)

\* the random strings TempFile may draw
Rands == {Repeat("x", n) : n \in 1 .. MaxRand}

\* position of the last "*" of the pattern, 0 when there is none
LastStar(pattern) ==
    LET S == {p \in 1 .. Len(pattern) : pattern[p] = "*"}
    IN  IF S = {} THEN 0 ELSE CHOOSE p \in S : \A q \in S : q <= p

\* ioutil.TempFile: prefix + random + suffix, split at the last "*"
TempName(pattern, r) ==
    LET pos == LastStar(pattern)
    IN  IF pos = 0 THEN pattern \o r
        ELSE SubSeq(pattern, 1, pos - 1) \o r \o SubSeq(pattern, pos + 1, Len(pattern))

Join(dir, name) == Append(dir, name)
Parent(path) == SubSeq(path, 1, Len(path) - 1)

OldContent == <<"old">>
FsInit ==
    (TempDir :> [kind |-> "dir", content |-> <<>>])
    @@ (Join(TempDir, TempName(Pattern, Repeat("x", 1))) :> [kind |-> "file", content |-> OldContent])
    @@ (OutDir :> [kind |-> "dir", content |-> <<>>])
    @@ (OldFile :> [kind |-> "file", content |-> OldContent])

\* ------------------------------------------------------------------ errors
NilErr == [msg |-> "nil", cites |-> {}]
Errorf(msg, cites) == [msg |-> msg, cites |-> cites]

ErrCreate == "unable to create mining node"
ErrSetUp == "unable to complete mining node setup"
ErrConnect == "unable to connect nodes"
ErrWait == "failed to wait for blocks to generate on node"
ErrDot == "failed to render dag in graphviz DOT format"
ErrSvg == "failed to convert DOT file to SVG"
ErrStrip == "failed to strip xml declaration from SVG image"
ErrHtml == "failed to render SVG image as HTML"
ErrOpen == "failed to create output file-handle"
ErrSave == "failed to save HTML file"

\* ------------------------------------------------------------------- state
VARIABLES
    minerCount, blockCount, output, \* arguments of runNet
    pc,          \* position of main / runNet
    i,           \* index of the spawn loop
    inst,        \* node instance -> "none" | "created" | "running" | "torn"
    miners,      \* the miners slice: node ids in append order
    deferred,    \* the deferred teardown function has been registered
    futures,     \* the futures slice
    task,        \* node -> "none" | "pending" | "completed" | "failed"
    order,       \* nodes in the order their generation tasks finished
    r,           \* index of the receive loop
    received,    \* indexes of futures on which Receive has returned
    t,           \* index of the teardown loop of the deferred function
    dot, svg, svgEmbed, h,  \* rendering artifacts
    fs,          \* file system: path -> [kind, content]
    fh,          \* the output file handle
    retPath, retErr, \* values returned by runNet
    stdout, exitCode,
    calls,       \* log of the collaborator calls made, with their outcome
    views,       \* dag extraction: the dag view of each miner
    graph,       \* dag extraction: the merged graph, hash -> parent hashes
    merged,      \* dag extraction: number of views merged so far
    phase,       \* dag extraction: "idle" | "merge" | "validate" | "done" | "failed"
    dagErr       \* dag extraction: the error raised

vars == <<minerCount, blockCount, output, pc, i, inst, miners, deferred,
          futures, task, order, r, received, t, dot, svg, svgEmbed, h,
          fs, fh, retPath, retErr, stdout, exitCode, calls,
          views, graph, merged, phase, dagErr>>

inputVars == <<minerCount, blockCount, output>>
spawnVars == <<i, inst, miners>>
genVars == <<futures, task, order, r, received>>
renderVars == <<dot, svg, svgEmbed, h>>
fileVars == <<fs, fh>>
mainVars == <<stdout, exitCode>>
dagVars == <<views, graph, merged, phase, dagErr>>
runVars == <<minerCount, blockCount, output, pc, i, inst, miners, deferred,
             futures, task, order, r, received, t, dot, svg, svgEmbed, h,
             fs, fh, retPath, retErr, stdout, exitCode, calls>>
NoDagErr == [kind |-> "nil", hash |-> {}]

NoFile == [name |-> <<>>, state |-> "none"]
Call(op, args, ok) == [op |-> op, args |-> args, ok |-> ok]
Log(op, args, ok) == calls' = Append(calls, Call(op, args, ok))

Init ==
    /\ minerCount \in MinerCounts
    /\ blockCount \in BlockCounts
    /\ output \in Outputs
    /\ pc = "main"
    /\ i = 0
    /\ inst = [n \in Nodes |-> "none"]
    /\ miners = <<>>
    /\ deferred = FALSE
    /\ futures = <<>>
    /\ task = [n \in Nodes |-> "none"]
    /\ order = <<>>
    /\ r = 0
    /\ received = {}
    /\ t = 0
    /\ dot = <<>> /\ svg = <<>> /\ svgEmbed = <<>> /\ h = <<>>
    /\ fs = FsInit
    /\ fh = NoFile
    /\ retPath = <<>>
    /\ retErr = NilErr
    /\ stdout = <<>>
    /\ exitCode = 0 - 1
    /\ calls = <<>>
    /\ views = <<>>
    /\ graph = <<>>
    /\ merged = 0
    /\ phase = "idle"
    /\ dagErr = NoDagErr

\* ------------------------------------------------------------------ return
\* A return statement of runNet: the results are set, then the deferred
\* function, when it has been registered, runs before control reaches main.
ReturnNoDeferOnError(path, err) ==
    /\ retPath' = path
    /\ retErr' = err
    /\ t' = 0
    /\ pc' = IF deferred /\ err = NilErr THEN "teardown" ELSE "returned"

Return(path, err) ==
    /\ retPath' = path
    /\ retErr' = err
    /\ t' = 0
    /\ pc' = IF deferred THEN "teardown" ELSE "returned"

\* -------------------------------------------------------------------- main
MainStart ==
    /\ pc = "main"
    /\ stdout' = Append(stdout, <<"Generating dag">>)
    /\ pc' = "spawn"
    /\ UNCHANGED <<inputVars, dagVars, spawnVars, deferred, genVars, t, renderVars,
                   fileVars, retPath, retErr, exitCode, calls>>

\* ------------------------------------------------------------- spawn loop
SpawnNewContinue ==
    /\ pc = "spawn"
    /\ i < minerCount
    /\ \E ok \in BOOLEAN :
        /\ Log("New", {i}, ok)
        /\ IF ok
           THEN /\ inst' = [inst EXCEPT ![i] = "created"]
                /\ pc' = "setup"
                /\ UNCHANGED <<i, retPath, retErr, t>>
           ELSE /\ i' = i + 1
                /\ UNCHANGED <<inst, pc, retPath, retErr, t>>
    /\ UNCHANGED <<inputVars, dagVars, miners, deferred, genVars, renderVars,
                   fileVars, mainVars>>

SpawnNew ==
    /\ pc = "spawn"
    /\ i < minerCount
    /\ \E ok \in BOOLEAN :
        /\ Log("New", {i}, ok)
        /\ IF ok
           THEN /\ inst' = [inst EXCEPT ![i] = "created"]
                /\ pc' = "setup"
                /\ UNCHANGED <<retPath, retErr, t>>
           ELSE /\ Return(<<>>, Errorf(ErrCreate, {i}))
                /\ UNCHANGED inst
    /\ UNCHANGED <<inputVars, dagVars, i, miners, deferred, genVars, renderVars,
                   fileVars, mainVars>>

SpawnSetUp ==
    /\ pc = "setup"
    /\ \E ok \in BOOLEAN :
        /\ Log("SetUp", {i}, ok)
        /\ IF ok
           THEN /\ inst' = [inst EXCEPT ![i] = "running"]
                /\ miners' = Append(miners, i)
                /\ i' = i + 1
                /\ pc' = "spawn"
                /\ UNCHANGED <<retPath, retErr, t>>
           ELSE /\ Return(<<>>, Errorf(ErrSetUp, {i}))
                /\ UNCHANGED <<inst, miners, i>>
    /\ UNCHANGED <<inputVars, dagVars, deferred, genVars, renderVars, fileVars,
                   mainVars>>

\* the spawn loop is over: the deferred function is registered
RegisterDefer ==
    /\ pc = "spawn"
    /\ ~(i < minerCount)
    /\ deferred' = TRUE
    /\ pc' = "connect"
    /\ UNCHANGED <<inputVars, dagVars, spawnVars, genVars, t, renderVars, fileVars,
                   retPath, retErr, mainVars, calls>>

\* ------------------------------------------------------ deferred function
TearDownStopOnErr ==
    /\ pc = "teardown"
    /\ t < Len(miners)
    /\ \E ok \in BOOLEAN :
        /\ Log("TearDown", {miners[t + 1]}, ok)
        /\ pc' = IF ok THEN pc ELSE "returned"
    /\ inst' = [inst EXCEPT ![miners[t + 1]] = "torn"]
    /\ t' = t + 1
    /\ UNCHANGED <<inputVars, dagVars, i, miners, deferred, genVars, renderVars,
                   fileVars, retPath, retErr, mainVars>>

TearDownReverse ==
    /\ pc = "teardown"
    /\ t < Len(miners)
    /\ \E ok \in BOOLEAN : Log("TearDown", {miners[Len(miners) - t]}, ok)
    /\ inst' = [inst EXCEPT ![miners[Len(miners) - t]] = "torn"]
    /\ t' = t + 1
    /\ UNCHANGED <<inputVars, dagVars, pc, i, miners, deferred, genVars, renderVars,
                   fileVars, retPath, retErr, mainVars>>

TearDown ==
    /\ pc = "teardown"
    /\ t < Len(miners)
    /\ \E ok \in BOOLEAN : Log("TearDown", {miners[t + 1]}, ok)
    /\ inst' = [inst EXCEPT ![miners[t + 1]] = "torn"]
    /\ t' = t + 1
    /\ UNCHANGED <<inputVars, dagVars, pc, i, miners, deferred, genVars, renderVars,
                   fileVars, retPath, retErr, mainVars>>

TearDownEnd ==
    /\ pc = "teardown"
    /\ ~(t < Len(miners))
    /\ pc' = "returned"
    /\ UNCHANGED <<inputVars, dagVars, spawnVars, deferred, genVars, t, renderVars,
                   fileVars, retPath, retErr, mainVars, calls>>

\* ---------------------------------------------------------------- connect
ConnectNodesIgnoreErr ==
    /\ pc = "connect"
    /\ \E ok \in BOOLEAN : Log("ConnectNodes", {}, ok)
    /\ pc' = "generate"
    /\ UNCHANGED <<retPath, retErr, t>>
    /\ UNCHANGED <<inputVars, dagVars, spawnVars, deferred, genVars, renderVars,
                   fileVars, mainVars>>

ConnectNodes ==
    /\ pc = "connect"
    /\ \E ok \in BOOLEAN :
        /\ Log("ConnectNodes", {}, ok)
        /\ IF ok
           THEN /\ pc' = "generate"
                /\ UNCHANGED <<retPath, retErr, t>>
           ELSE Return(<<>>, Errorf(ErrConnect, {}))
    /\ UNCHANGED <<inputVars, dagVars, spawnVars, deferred, genVars, renderVars,
                   fileVars, mainVars>>

\* ---------------------------------------------------------------- fan-out
\* the future of GenerateAsync(uint32(blockCount)) on a miner
Future(node, count) == [node |-> node, count |-> count]

GenerateAsyncThenWait ==
    /\ pc = "generate"
    /\ Len(futures) < Len(miners)
    /\ LET node == miners[Len(futures) + 1]
       IN  /\ futures' = Append(futures, Future(node, blockCount))
           /\ task' = [task EXCEPT ![node] = "pending"]
           /\ Log("GenerateAsync", {node}, TRUE)
    /\ pc' = "receive"
    /\ UNCHANGED <<inputVars, dagVars, spawnVars, deferred, order, r, received, t,
                   renderVars, fileVars, retPath, retErr, mainVars>>

GenerateAsync ==
    /\ pc = "generate"
    /\ Len(futures) < Len(miners)
    /\ LET node == miners[Len(futures) + 1]
       IN  /\ futures' = Append(futures, Future(node, blockCount))
           /\ task' = [task EXCEPT ![node] = "pending"]
           /\ Log("GenerateAsync", {node}, TRUE)
    /\ UNCHANGED <<inputVars, dagVars, pc, spawnVars, deferred, order, r, received, t,
                   renderVars, fileVars, retPath, retErr, mainVars>>

GenerateLoopEnd ==
    /\ pc = "generate"
    /\ ~(Len(futures) < Len(miners))
    /\ pc' = "receive"
    /\ UNCHANGED <<inputVars, dagVars, spawnVars, deferred, genVars, t, renderVars,
                   fileVars, retPath, retErr, mainVars, calls>>

\* a node finishes its block generation: pending -> completed | failed
TaskStep(n) ==
    /\ task[n] = "pending"
    /\ \E outcome \in {"completed", "failed"} :
        task' = [task EXCEPT ![n] = outcome]
    /\ order' = Append(order, n)
    /\ UNCHANGED <<inputVars, dagVars, pc, spawnVars, deferred, futures, r, received,
                   t, renderVars, fileVars, retPath, retErr, mainVars, calls>>

\* ----------------------------------------------------------------- fan-in
Terminal(n) == task[n] \in {"completed", "failed"}

\* Receive on futures[r + 1] blocks until the task is terminal
ReceiveOneBased ==
    /\ pc = "receive"
    /\ r < Len(futures)
    /\ LET node == futures[r + 1].node
       IN  /\ Terminal(node)
           /\ received' = received \cup {r}
           /\ Log("Receive", {r}, task[node] = "completed")
           /\ IF task[node] = "completed"
              THEN /\ r' = r + 1
                   /\ UNCHANGED <<pc, retPath, retErr, t>>
              ELSE /\ Return(<<>>, Errorf(ErrWait, {r + 1}))
                   /\ UNCHANGED r
    /\ UNCHANGED <<inputVars, dagVars, spawnVars, deferred, futures, task, order,
                   renderVars, fileVars, mainVars>>

ReceiveAsCompleted ==
    /\ pc = "receive"
    /\ r < Len(futures)
    /\ \E j \in (0 .. (Len(futures) - 1)) \ received :
        LET node == futures[j + 1].node
        IN  /\ Terminal(node)
            /\ received' = received \cup {j}
            /\ Log("Receive", {j}, task[node] = "completed")
            /\ IF task[node] = "completed"
               THEN /\ r' = r + 1
                    /\ UNCHANGED <<pc, retPath, retErr, t>>
               ELSE /\ Return(<<>>, Errorf(ErrWait, {j}))
                    /\ UNCHANGED r
    /\ UNCHANGED <<inputVars, dagVars, spawnVars, deferred, futures, task, order,
                   renderVars, fileVars, mainVars>>

Receive ==
    /\ pc = "receive"
    /\ r < Len(futures)
    /\ LET node == futures[r + 1].node
       IN  /\ Terminal(node)
           /\ received' = received \cup {r}
           /\ Log("Receive", {r}, task[node] = "completed")
           /\ IF task[node] = "completed"
              THEN /\ r' = r + 1
                   /\ UNCHANGED <<pc, retPath, retErr, t>>
              ELSE /\ Return(<<>>, Errorf(ErrWait, {r}))
                   /\ UNCHANGED r
    /\ UNCHANGED <<inputVars, dagVars, spawnVars, deferred, futures, task, order,
                   renderVars, fileVars, mainVars>>

ReceiveLoopEndEarly ==
    /\ pc = "receive"
    /\ pc' = "render_dot"
    /\ UNCHANGED <<inputVars, dagVars, spawnVars, deferred, genVars, t, renderVars,
                   fileVars, retPath, retErr, mainVars, calls>>

ReceiveLoopEnd ==
    /\ pc = "receive"
    /\ ~(r < Len(futures))
    /\ pc' = "render_dot"
    /\ UNCHANGED <<inputVars, dagVars, spawnVars, deferred, genVars, t, renderVars,
                   fileVars, retPath, retErr, mainVars, calls>>

\* -------------------------------------------------------------- rendering
\* the documents the rendering collaborators produce
DagDot == <<"digraph">>
DotToSvg(d) == <<"<?xml?>", "<svg>">> \o d \o <<"</svg>">>
StripSvgXmlDecl(s) == SelectSeq(s, LAMBDA tok : tok # "<?xml?>")
RenderSvgHTML(s, title) == <<"<html>", title>> \o s \o <<"</html>">>

RenderDot ==
    /\ pc = "render_dot"
    /\ \E ok \in BOOLEAN :
        /\ Log("RenderDagsDot", {}, ok)
        /\ IF ok
           THEN /\ dot' = DagDot
                /\ pc' = "dot_to_svg"
                /\ UNCHANGED <<retPath, retErr, t>>
           ELSE /\ Return(<<>>, Errorf(ErrDot, {}))
                /\ UNCHANGED dot
    /\ UNCHANGED <<inputVars, dagVars, spawnVars, deferred, genVars, svg, svgEmbed, h,
                   fileVars, mainVars>>

RenderSvgIgnoreErr ==
    /\ pc = "dot_to_svg"
    /\ \E ok \in BOOLEAN :
        /\ Log("DotToSvg", {}, ok)
        /\ svg' = IF ok THEN DotToSvg(dot) ELSE svg
    /\ pc' = "strip"
    /\ UNCHANGED <<retPath, retErr, t>>
    /\ UNCHANGED <<inputVars, dagVars, spawnVars, deferred, genVars, dot, svgEmbed, h,
                   fileVars, mainVars>>

RenderSvg ==
    /\ pc = "dot_to_svg"
    /\ \E ok \in BOOLEAN :
        /\ Log("DotToSvg", {}, ok)
        /\ IF ok
           THEN /\ svg' = DotToSvg(dot)
                /\ pc' = "strip"
                /\ UNCHANGED <<retPath, retErr, t>>
           ELSE /\ Return(<<>>, Errorf(ErrSvg, {}))
                /\ UNCHANGED svg
    /\ UNCHANGED <<inputVars, dagVars, spawnVars, deferred, genVars, dot, svgEmbed, h,
                   fileVars, mainVars>>

RenderStrip ==
    /\ pc = "strip"
    /\ \E ok \in BOOLEAN :
        /\ Log("StripSvgXmlDecl", {}, ok)
        /\ IF ok
           THEN /\ svgEmbed' = StripSvgXmlDecl(svg)
                /\ pc' = "render_html"
                /\ UNCHANGED <<retPath, retErr, t>>
           ELSE /\ Return(<<>>, Errorf(ErrStrip, {}))
                /\ UNCHANGED svgEmbed
    /\ UNCHANGED <<inputVars, dagVars, spawnVars, deferred, genVars, dot, svg, h,
                   fileVars, mainVars>>

RenderHtml ==
    /\ pc = "render_html"
    /\ \E ok \in BOOLEAN :
        /\ Log("RenderSvgHTML", {}, ok)
        /\ IF ok
           THEN /\ h' = RenderSvgHTML(svgEmbed, "dag")
                /\ pc' = "open"
                /\ UNCHANGED <<retPath, retErr, t>>
           ELSE /\ Return(<<>>, Errorf(ErrHtml, {}))
                /\ UNCHANGED h
    /\ UNCHANGED <<inputVars, dagVars, spawnVars, deferred, genVars, dot, svg,
                   svgEmbed, fileVars, mainVars>>

\* ------------------------------------------------------------ output file
Exists(path) == path \in DOMAIN fs
IsDir(path) == Exists(path) /\ fs[path].kind = "dir"
\* the directory a relative one-component path lives in always exists
DirExists(path) == path = <<>> \/ IsDir(path)

FailedOpen == [ok |-> FALSE, name |-> <<>>]

\* ioutil.TempFile(dir, pattern): a new file, exclusively created, in dir,
\* or in os.TempDir() when dir is empty; an error when none can be created
TempFile(dir, pattern) ==
    LET d == IF Len(dir) = 0 THEN TempDir ELSE dir
    IN  {FailedOpen} \cup
        {[ok |-> TRUE, name |-> Join(d, TempName(pattern, x))] :
            x \in {y \in Rands : IsDir(d) /\ ~Exists(Join(d, TempName(pattern, y)))}}

\* os.OpenFile(name, O_RDWR|O_CREATE|O_TRUNC, 0644)
OpenFile(name) ==
    {FailedOpen} \cup
    (IF ~IsDir(name) /\ DirExists(Parent(name))
     THEN {[ok |-> TRUE, name |-> name]} ELSE {})

\* os.Stat(output): pathErr == nil only for a path that exists
StatOutcomes(path) == IF Exists(path) THEN {TRUE, FALSE} ELSE {FALSE}

\* which call creates the file handle, and its possible results

ResolveDirInTemp(path) ==
    IF Len(path) = 0
    THEN TempFile(<<>>, Pattern)
    ELSE UNION {IF pathErrNil /\ IsDir(path)
                THEN TempFile(<<>>, Pattern)
                ELSE OpenFile(path) : pathErrNil \in StatOutcomes(path)}

Resolve(path) ==
    IF Len(path) = 0
    THEN TempFile(<<>>, Pattern)
    ELSE UNION {IF pathErrNil /\ IsDir(path)
                THEN TempFile(path, Pattern)
                ELSE OpenFile(path) : pathErrNil \in StatOutcomes(path)}

OpenOutput ==
    /\ pc = "open"
    /\ \E res \in Resolve(output) :
        /\ Log("Open", {}, res.ok)
        /\ IF res.ok
           THEN /\ fh' = [name |-> res.name, state |-> "open"]
                /\ fs' = [p \in DOMAIN fs \cup {res.name} |->
                            IF p = res.name
                            THEN [kind |-> "file", content |-> <<>>]
                            ELSE fs[p]]
                /\ pc' = "save_write"
                /\ UNCHANGED <<retPath, retErr, t>>
           ELSE /\ Return(<<>>, Errorf(ErrOpen, {}))
                /\ UNCHANGED <<fs, fh>>
    /\ UNCHANGED <<inputVars, dagVars, spawnVars, deferred, genVars, renderVars,
                   mainVars>>

\* save: fh.Write(bytes); a failed write may leave any proper prefix behind
SaveWrite ==
    /\ pc = "save_write"
    /\ \E ok \in BOOLEAN :
        /\ Log("Write", {}, ok)
        /\ IF ok
           THEN /\ fs' = [fs EXCEPT ![fh.name].content = h]
                /\ pc' = "save_close"
                /\ UNCHANGED <<retPath, retErr, t>>
           ELSE /\ \E n \in 0 .. (Len(h) - 1) :
                     fs' = [fs EXCEPT ![fh.name].content = SubSeq(h, 1, n)]
                /\ Return(<<>>, Errorf(ErrSave, {}))
    /\ UNCHANGED <<inputVars, dagVars, spawnVars, deferred, genVars, renderVars, fh,
                   mainVars>>

\* save: fh.Close(), then runNet returns fh.Name()
SaveClose ==
    /\ pc = "save_close"
    /\ \E ok \in BOOLEAN :
        /\ Log("Close", {}, ok)
        /\ fh' = [fh EXCEPT !.state = "closed"]
        /\ IF ok
           THEN Return(fh.name, NilErr)
           ELSE Return(<<>>, Errorf(ErrSave, {}))
    /\ UNCHANGED <<inputVars, dagVars, spawnVars, deferred, genVars, renderVars, fs,
                   mainVars>>

\* main, after runNet has returned
MainFinish ==
    /\ pc = "returned"
    /\ IF retErr # NilErr
       THEN /\ stdout' = Append(stdout, <<retErr>>)
            /\ exitCode' = 1
       ELSE /\ stdout' = Append(stdout, <<"Saved dag to", retPath>>)
            /\ exitCode' = 0
    /\ pc' = "exited"
    /\ UNCHANGED <<inputVars, dagVars, spawnVars, deferred, genVars, t, renderVars,
                   fileVars, retPath, retErr, calls>>

Next ==
    \/ MainStart
    \/ SpawnNew
    \/ SpawnSetUp
    \/ RegisterDefer
    \/ ConnectNodes
    \/ GenerateAsync
    \/ GenerateLoopEnd
    \/ \E n \in Nodes : TaskStep(n)
    \/ Receive
    \/ ReceiveLoopEnd
    \/ RenderDot
    \/ RenderSvg
    \/ RenderStrip
    \/ RenderHtml
    \/ OpenOutput
    \/ SaveWrite
    \/ SaveClose
    \/ TearDown
    \/ TearDownEnd
    \/ MainFinish

Spec == Init /\ [][Next]_vars

\* Every collaborator call returns and every dispatched generation task
\* reaches a terminal state: runNet and the tasks keep taking their steps.
LiveSpec ==
    /\ Init
    /\ [][Next]_vars
    /\ WF_vars(Next)
    /\ \A n \in Nodes : WF_vars(TaskStep(n))

\* ---------------------------------------------------------- dag extraction
\* RenderDagsDot (line 67) reads the dag view of every miner and merges the
\* views into one graph keyed by block hash; its steps are modelled after
\* the design of the DagExtractor.
Genesis == "g"
Hashes == {Genesis, "a", "b"}

\* a view knows the genesis block and some other blocks, each with a
\* non-empty set of parent hashes
ViewsOver(D) ==
    {v \in [D -> SUBSET Hashes] :
        \A x \in D : IF x = Genesis THEN v[x] = {}
                     ELSE v[x] # {} /\ x \notin v[x]}
ViewSet == UNION {ViewsOver(D \cup {Genesis}) : D \in SUBSET (Hashes \ {Genesis})}

RECURSIVE SeqsUpTo(_, _)
SeqsUpTo(S, n) ==
    IF n = 0 THEN {<<>>}
    ELSE LET shorter == SeqsUpTo(S, n - 1)
         IN  shorter \cup {Append(q, x) : q \in shorter, x \in S}

Conflicts(g, v) == {x \in DOMAIN g \cap DOMAIN v : g[x] # v[x]}

\* union keyed by hash; a hash known to both sides must have equal parents
MergeStepLastWins(g, v) ==
    [err |-> NoDagErr,
     graph |-> [x \in DOMAIN g \cup DOMAIN v |->
                  IF x \in DOMAIN v THEN v[x] ELSE g[x]]]

MergeStep(g, v) ==
    IF Conflicts(g, v) = {}
    THEN [err |-> NoDagErr,
          graph |-> [x \in DOMAIN g \cup DOMAIN v |->
                       IF x \in DOMAIN g THEN g[x] ELSE v[x]]]
    ELSE [err |-> [kind |-> "ConsistencyViolation",
                   hash |-> {CHOOSE x \in Conflicts(g, v) : TRUE}],
          graph |-> g]

ParentsOf(g, S) == UNION {g[x] : x \in S \cap DOMAIN g}
RECURSIVE Closure(_, _, _)
Closure(g, S, n) ==
    IF n = 0 THEN S ELSE Closure(g, S \cup ParentsOf(g, S), n - 1)
Ancestors(g, x) == Closure(g, g[x], Cardinality(DOMAIN g))
Acyclic(g) == \A x \in DOMAIN g : x \notin Ancestors(g, x)
NoDangling(g) == \A x \in DOMAIN g : g[x] \subseteq DOMAIN g

IdxSeq(n) == [k \in 1 .. n |-> k - 1]

\* the state of runNet when line 67 is reached with n miners
ExtractStart(n) ==
    /\ minerCount = n
    /\ blockCount = DefaultBlockCount
    /\ output = <<>>
    /\ pc = "render_dot"
    /\ i = n
    /\ inst = [m \in Nodes |-> IF m < n THEN "running" ELSE "none"]
    /\ miners = IdxSeq(n)
    /\ deferred = TRUE
    /\ futures = [k \in 1 .. n |-> Future(k - 1, DefaultBlockCount)]
    /\ task = [m \in Nodes |-> IF m < n THEN "completed" ELSE "none"]
    /\ order = IdxSeq(n)
    /\ r = n
    /\ received = 0 .. (n - 1)
    /\ t = 0
    /\ dot = <<>> /\ svg = <<>> /\ svgEmbed = <<>> /\ h = <<>>
    /\ fs = FsInit
    /\ fh = NoFile
    /\ retPath = <<>>
    /\ retErr = NilErr
    /\ stdout = << <<"Generating dag">> >>
    /\ exitCode = 0 - 1
    /\ calls = [k \in 1 .. (2 * n) |->
                  Call(IF k % 2 = 1 THEN "New" ELSE "SetUp", {(k - 1) \div 2}, TRUE)]
               \o <<Call("ConnectNodes", {}, TRUE)>>
               \o [k \in 1 .. n |-> Call("GenerateAsync", {k - 1}, TRUE)]
               \o [k \in 1 .. n |-> Call("Receive", {k - 1}, TRUE)]

MergeInit ==
    /\ views \in SeqsUpTo(ViewSet, MaxMiners) \ {<<>>}
    /\ ExtractStart(Len(views))
    /\ graph = <<>>
    /\ merged = 0
    /\ phase = "merge"
    /\ dagErr = NoDagErr

\* one more view is merged into the graph
MergeView ==
    /\ phase = "merge"
    /\ merged < Len(views)
    /\ LET res == MergeStep(graph, views[merged + 1])
       IN  /\ graph' = res.graph
           /\ dagErr' = res.err
           /\ phase' = IF res.err # NoDagErr THEN "failed"
                       ELSE IF merged + 1 = Len(views) THEN "validate"
                       ELSE "merge"
    /\ merged' = merged + 1
    /\ UNCHANGED <<runVars, views>>

\* the merged graph must be acyclic and have no dangling parent
Validate ==
    /\ phase = "validate"
    /\ IF Acyclic(graph) /\ NoDangling(graph)
       THEN /\ phase' = "done"
            /\ UNCHANGED dagErr
       ELSE /\ phase' = "failed"
            /\ dagErr' = [kind |-> "CorruptDag", hash |-> {}]
    /\ UNCHANGED <<runVars, views, graph, merged>>

MergeNext ==
    \/ MergeView
    \/ Validate

SpecMerge == MergeInit /\ [][MergeNext]_vars

\* =============================================================== properties
Returned == pc \in {"returned", "exited"}
Min(S) == CHOOSE x \in S : \A y \in S : x <= y
CallsOf(op) == {c \in DOMAIN calls : calls[c].op = op}
FailedCalls(op) == {c \in CallsOf(op) : ~calls[c].ok}
TearDownCount(n) == Cardinality({c \in CallsOf("TearDown") : calls[c].args = {n}})
GenerateCount(n) == Cardinality({c \in CallsOf("GenerateAsync") : calls[c].args = {n}})
Handles == 0 .. (minerCount - 1)
FutureIdx == 0 .. (Len(futures) - 1)
FailedIdx == {k \in FutureIdx : task[futures[k + 1].node] = "failed"}
ProvisionFailed == retErr.msg \in {ErrCreate, ErrSetUp}
AllTornDownOnce == \A n \in Handles : TearDownCount(n) = 1 /\ inst[n] = "torn"
BeforeFanInEnd == pc \in {"main", "spawn", "setup", "connect", "generate", "receive"}

\* C1: when provisioning of node i fails, every handle 0..i-1 created before
\* it has had TearDown invoked on it by the time runNet has returned.
C1_CreatedHandlesTornDown ==
    (Returned /\ ProvisionFailed) => \A n \in 0 .. (i - 1) : TearDownCount(n) >= 1

\* C2: when the fan-in step has ended, Receive has returned on every
\* dispatched future, also when the future of another node has failed.
C2_FanInReceivesEveryFuture ==
    ~BeforeFanInEnd => received = FutureIdx

\* C3: when all minerCount handles were provisioned, TearDown has been invoked
\* exactly once on each of them by the time runNet has returned, whatever
\* futures failed; and TearDown is never invoked twice on a handle.
C3_TearDownExactlyOnce ==
    /\ \A n \in Nodes : TearDownCount(n) <= 1
    /\ (Returned /\ deferred) => (Len(miners) = minerCount /\ AllTornDownOnce)

C3_Witness ==
    /\ Returned /\ deferred /\ minerCount >= 2
    /\ FailedIdx # {}
    /\ \E n \in Handles : task[n] = "completed"
    /\ AllTornDownOnce

\* C4: when generation has failed on exactly one node k and succeeded on all
\* the others, runNet has returned an error citing index k and an empty path,
\* and all minerCount handles are torn down.
C4_SingleFailureCited ==
    (/\ Returned
     /\ Len(futures) = minerCount
     /\ \A n \in Handles : Terminal(n)
     /\ Cardinality(FailedIdx) = 1)
    => /\ retErr = Errorf(ErrWait, FailedIdx)
       /\ retPath = <<>>
       /\ AllTornDownOnce

\* the last node alone fails, and its task was the first to finish
C4_Witness ==
    /\ Returned /\ minerCount >= 2
    /\ Len(order) = minerCount
    /\ FailedIdx = {minerCount - 1}
    /\ order[1] = minerCount - 1
    /\ retErr = Errorf(ErrWait, {minerCount - 1})
    /\ AllTornDownOnce

\* C5: the futures are index-aligned with the miners, one per handle, and
\* Receive is not called before GenerateAsync has been issued on all handles.
C5_FanOutBeforeFanIn ==
    /\ Len(futures) <= Len(miners)
    /\ \A k \in DOMAIN futures : futures[k] = Future(miners[k], blockCount)
    /\ \A n \in Nodes : GenerateCount(n) <= 1
    /\ (pc = "receive" \/ received # {} \/ CallsOf("Receive") # {})
       => /\ Len(futures) = minerCount
          /\ \A n \in Handles : GenerateCount(n) = 1 /\ task[n] # "none"

C5_Witness ==
    /\ received # {} /\ minerCount >= 2
    /\ Len(futures) = minerCount

\* C6: TearDown is never invoked on a handle whose generation task is still
\* pending.
C6_NoTearDownWhilePending ==
    \A n \in Nodes : inst[n] = "torn" => task[n] # "pending"

\* C7: when several futures fail, the error runNet returns cites the smallest
\* failing index, whatever the order in which the tasks finished.
C7_SmallestFailingIndexCited ==
    (Returned /\ Cardinality(FailedIdx) >= 2)
    => retErr = Errorf(ErrWait, {Min(FailedIdx)})

\* two tasks failed, the one with the smaller index after the other one
C7_Witness ==
    /\ Returned /\ Cardinality(FailedIdx) >= 2
    /\ retErr = Errorf(ErrWait, {Min(FailedIdx)})
    /\ \E p, q \in DOMAIN order :
        /\ p < q
        /\ order[q] = Min(FailedIdx)
        /\ order[p] \in FailedIdx

\* C8: when ConnectNodes fails, no GenerateAsync is issued, nothing is
\* rendered, no output file is created, runNet returns an error with an empty
\* path, and all minerCount handles are torn down.
C8_ConnectFailureAborts ==
    FailedCalls("ConnectNodes") # {}
    => /\ \A c \in DOMAIN calls : calls[c].op \in {"New", "SetUp", "ConnectNodes", "TearDown"}
       /\ futures = <<>>
       /\ \A n \in Nodes : task[n] = "none"
       /\ h = <<>> /\ dot = <<>>
       /\ fs = FsInit /\ fh = NoFile
       /\ ~BeforeFanInEnd
       /\ retPath = <<>> /\ retErr = Errorf(ErrConnect, {})
       /\ Returned => AllTornDownOnce

C8_Witness ==
    /\ Returned /\ minerCount >= 2
    /\ FailedCalls("ConnectNodes") # {}
    /\ AllTornDownOnce

\* C9: provisioning is sequential and stops at the first failure: instances
\* are created in index order, and when New or SetUp fails for node i no
\* instance with a greater index is created and the error cites index i.
NewCalls == SelectSeq(calls, LAMBDA c : c.op = "New")
C9_ProvisioningStopsAtFirstFailure ==
    /\ \A k \in DOMAIN NewCalls : NewCalls[k].args = {k - 1}
    /\ \A c \in FailedCalls("New") \cup FailedCalls("SetUp") :
        /\ c = Len(calls)
        /\ retErr = Errorf(IF calls[c].op = "New" THEN ErrCreate ELSE ErrSetUp, calls[c].args)
        /\ retPath = <<>>
        /\ \A n \in Nodes : (\E j \in calls[c].args : n > j) => inst[n] = "none"
        /\ pc \in {"returned", "exited"}

C9_Witness ==
    /\ Returned /\ ProvisionFailed
    /\ minerCount >= 3
    /\ retErr.cites = {1}
    /\ inst[0] = "running"
    /\ \A n \in Nodes : n > 1 => inst[n] = "none"

\* C10: on success the returned path is the resolved file: for the empty
\* path a new dag_<random>.html in the temporary directory, for an existing
\* directory a new dag_<random>.html inside it, for any other path that very
\* file; the file is created or truncated and then holds the document.
IsTempName(name) ==
    /\ Len(name) >= 3
    /\ name[1] = "dag_"
    /\ name[Len(name)] = ".html"
    /\ \A p \in 2 .. (Len(name) - 1) : name[p] = "x"
IsNewTempIn(path, dir) ==
    /\ Len(path) = Len(dir) + 1
    /\ Parent(path) = dir
    /\ IsTempName(path[Len(path)])
    /\ path \notin DOMAIN FsInit
WasDir(path) == path \in DOMAIN FsInit /\ FsInit[path].kind = "dir"
C10_OutputPolicy ==
    /\ pc = "save_write" => fs[fh.name] = [kind |-> "file", content |-> <<>>]
    /\ (Returned /\ retErr = NilErr)
       => /\ IF Len(output) = 0 THEN IsNewTempIn(retPath, TempDir)
             ELSE IF WasDir(output) THEN IsNewTempIn(retPath, output)
             ELSE retPath = output
          /\ fh.name = retPath
          /\ DOMAIN fs = DOMAIN FsInit \cup {retPath}
          /\ fs[retPath] = [kind |-> "file", content |-> h]
          /\ \A p \in DOMAIN FsInit \ {retPath} : fs[p] = FsInit[p]

C10_Witness ==
    /\ Returned /\ retErr = NilErr
    /\ output = OutDir
    /\ IsNewTempIn(retPath, OutDir)
    /\ fs[OutDir].kind = "dir"
    /\ fs[retPath].content = h /\ h # <<>>

\* C11: when a rendering stage fails, no later stage is executed, no output
\* file is created or truncated, and runNet returns an empty path with the
\* error of the failed stage.
RenderStages == {"RenderDagsDot", "DotToSvg", "StripSvgXmlDecl", "RenderSvgHTML"}
StageErr(op) ==
    IF op = "RenderDagsDot" THEN ErrDot
    ELSE IF op = "DotToSvg" THEN ErrSvg
    ELSE IF op = "StripSvgXmlDecl" THEN ErrStrip
    ELSE ErrHtml
C11_RenderFailureAborts ==
    \A c \in DOMAIN calls :
        (calls[c].op \in RenderStages /\ ~calls[c].ok)
        => /\ \A e \in DOMAIN calls : e > c => calls[e].op = "TearDown"
           /\ CallsOf("Open") = {} /\ CallsOf("Write") = {}
           /\ fs = FsInit /\ fh = NoFile
           /\ h = <<>>
           /\ calls[c].op # "RenderSvgHTML" => svgEmbed = <<>>
           /\ calls[c].op \in {"RenderDagsDot", "DotToSvg"} => svg = <<>>
           /\ retPath = <<>>
           /\ retErr = Errorf(StageErr(calls[c].op), {})
           /\ ~BeforeFanInEnd

C11_Witness ==
    /\ Returned
    /\ FailedCalls("StripSvgXmlDecl") # {}
    /\ svg # <<>> /\ svgEmbed = <<>>
    /\ retErr = Errorf(ErrStrip, {})
    /\ fs = FsInit

\* C12: a TearDown error on one handle neither prevents TearDown on the other
\* handles nor changes what runNet returns: once the cleanup loop is over
\* every handle has had its TearDown call, and no step of the cleanup loop
\* changes the results.
C12_TearDownIndependent ==
    /\ [](\A c \in FailedCalls("TearDown") :
            (pc # "teardown") => \A n \in Handles : TearDownCount(n) = 1)
    /\ [][pc = "teardown" => (retErr' = retErr /\ retPath' = retPath)]_vars

C12_Witness ==
    /\ Returned /\ minerCount >= 2
    /\ \E c \in FailedCalls("TearDown") : calls[c].args = {0}
    /\ AllTornDownOnce
    /\ retErr = NilErr /\ retPath # <<>>

\* C13: the program exits with code 0 and prints the resolved path exactly
\* when runNet succeeds, otherwise prints the error once and exits non-zero;
\* in both cases the handles have been torn down before the exit.
C13_ExitAfterTearDown ==
    pc = "exited"
    => /\ exitCode = 0 <=> retErr = NilErr
       /\ stdout = <<<<"Generating dag">>,
                     IF retErr = NilErr THEN <<"Saved dag to", retPath>> ELSE <<retErr>>>>
       /\ \A k \in DOMAIN miners : inst[miners[k]] = "torn"

\* C15: RenderDagsDot is invoked only when Receive has returned on all
\* minerCount futures and every generation task has completed successfully.
C15_RenderAfterAllCompleted ==
    (CallsOf("RenderDagsDot") # {} \/ pc = "render_dot")
    => /\ Len(futures) = minerCount
       /\ received = FutureIdx
       /\ \A n \in Handles : task[n] = "completed"
       /\ \A c \in CallsOf("Receive") : calls[c].ok

C15_Witness ==
    /\ CallsOf("RenderDagsDot") # {}
    /\ minerCount >= 2
    /\ received = FutureIdx
    /\ \A n \in Handles : task[n] = "completed"

\* C16: no handle is torn down before the last stage runNet executes has
\* finished: every TearDown call comes after every other call of runNet, and
\* the handles are torn down in provisioning order 0..N-1.
TearDownCalls == SelectSeq(calls, LAMBDA c : c.op = "TearDown")
C16_TearDownAfterPipeline ==
    /\ \A c \in CallsOf("TearDown") :
        \A e \in DOMAIN calls : e > c => calls[e].op = "TearDown"
    /\ (\E n \in Nodes : inst[n] = "torn") => pc \in {"teardown", "returned", "exited"}
    /\ \A k \in DOMAIN TearDownCalls : TearDownCalls[k].args = {k - 1}
    /\ \A k \in DOMAIN TearDownCalls : miners[k] = k - 1

C16_Witness ==
    /\ Returned /\ minerCount >= 2
    /\ Len(TearDownCalls) = minerCount
    /\ CallsOf("Close") # {}
    /\ calls[Len(calls)].args = {minerCount - 1}

\* C17: every instance for which New succeeded has been torn down when runNet
\* has returned, the one whose SetUp failed included.
C17_EveryInstanceTornDown ==
    Returned => \A n \in Nodes : inst[n] # "none" => inst[n] = "torn"

\* C19: when save has returned the opened file handle is closed, after a
\* successful and after a failed write; a non-empty path is returned only when
\* the whole document was written and the handle closed without error.
C19_HandleClosed ==
    /\ (Returned /\ fh.state # "none") => fh.state = "closed"
    /\ (Returned /\ retPath # <<>>)
       => /\ fs[retPath].content = h
          /\ \E c \in CallsOf("Close") : calls[c].ok

\* C18: when every task reaches a terminal state and every call returns,
\* runNet eventually returns with every provisioned handle torn down; and
\* while the future it waits on is pending, runNet neither returns nor tears
\* down a handle.
WaitingOnPending ==
    /\ pc = "receive"
    /\ r < Len(futures)
    /\ task[futures[r + 1].node] = "pending"
C18_ReturnsAndTearsDown ==
    /\ <>(Returned /\ \A k \in DOMAIN miners : inst[miners[k]] = "torn")
    /\ [][WaitingOnPending => (pc' = pc /\ inst' = inst /\ calls' = calls)]_vars

\* C14: merging the views yields a graph with one node per unique hash when
\* the views agree on the parents of every shared hash, and raises a
\* ConsistencyViolation, never a last-write-wins graph, when two views report
\* different parents for the same hash.
ViewsAgree ==
    \A p, q \in DOMAIN views :
        \A x \in DOMAIN views[p] \cap DOMAIN views[q] : views[p][x] = views[q][x]
DisputedHashes ==
    {x \in Hashes : \E p, q \in DOMAIN views :
        /\ x \in DOMAIN views[p] \cap DOMAIN views[q]
        /\ views[p][x] # views[q][x]}
UniqueHashes == UNION {DOMAIN views[p] : p \in DOMAIN views}
MergeEnded == phase \in {"validate", "done", "failed"}
C14_MergeByHash ==
    MergeEnded
    => IF ViewsAgree
       THEN /\ dagErr.kind # "ConsistencyViolation"
            /\ merged = Len(views)
            /\ DOMAIN graph = UniqueHashes
            /\ Cardinality(DOMAIN graph) = Cardinality(UniqueHashes)
            /\ \A p \in DOMAIN views : \A x \in DOMAIN views[p] : graph[x] = views[p][x]
       ELSE /\ dagErr.kind = "ConsistencyViolation"
            /\ dagErr.hash \subseteq DisputedHashes
            /\ dagErr.hash # {}
            /\ phase = "failed"

\* two views that both know block "a" report different parents for it
C14_Witness ==
    /\ MergeEnded
    /\ Len(views) >= 2
    /\ "a" \in DisputedHashes
    /\ dagErr = [kind |-> "ConsistencyViolation", hash |-> {"a"}]
====
